---- MODULE Spec2Model ----
(***************************************************************************)
(* NYC-311 pipeline: the Transactional Normalizer (Code/02_OLTP.py), the   *)
(* Feature & Cleaning Engine (Code/03_DataProcessing.py) and the           *)
(* Dimensional Materializer (Code/04_DataWarehouse.py).                    *)
(*                                                                         *)
(* The three scripts are separate processes with separate stores; one      *)
(* behaviour follows repeated invocations of one script (variable script)  *)
(* on its own store, with the script's input file drawn from a bounded set *)
(* at every invocation.                                                    *)
(*                                                                         *)
(* Values.  A missing cell (NaN in the data frame, NULL in the store) is   *)
(* NA; a missing reference (Python None out of dict.get) is NoKey.  A      *)
(* timestamp is a number of seconds since 1970-01-01 00:00:00, NaT, or an  *)
(* unparseable text.  A wait time in days is held as the integer           *)
(* SecondsPerDay * days, which is exact for whole-second differences.      *)
(* community_board is the sequence of its whitespace-delimited tokens.     *)
(***************************************************************************)
EXTENDS Integers, Sequences, FiniteSets, TLC

VARIABLES
  script,            \* the script this behaviour invokes
  pc,                \* Exited, or the position in add_contents / in __main__
  err,               \* the last invocation ended with an uncaught exception
  db,                \* the committed store: table name -> set of rows
  requests,          \* the data frame read from requests.csv
  requests_cleaned,  \* the data frame read from requests_cleaned.csv
  frame,             \* the data frame of the cleaning script
  featured,          \* history: frame as it was before the two filters
  called,            \* history: per table, whether its loader was called in
                     \* this invocation, and on an empty or populated table
  loaded,            \* history: per table, whether its loader has returned
                     \* on the present input since the store was last
                     \* cleared: "no", "once" or "again"
  fresh,             \* history: this invocation started on an empty store
  foreign_keys,      \* PRAGMA foreign_keys of this invocation's connection
  cat_col,           \* one categorical column of the cleaning script: its rows
                     \* grouped by the value they held at first
  val_cts,           \* df[col].value_counts() of that column
  description,       \* a resolution narrative
  resolution_type,   \* its bucket, once map_resolution_to_bucket returned
  runs               \* number of invocations so far

vars == <<script, pc, err, db, requests, requests_cleaned, frame, featured,
          called, loaded, fresh, foreign_keys, cat_col, val_cts, description,
          resolution_type, runs>>

\* ------------------------------------------------------------------ bounds
MaxRecords == 3

MaxFrameRows == 2

MaxRuns == 2

\* ------------------------------------------------------------------ values
NA == "<NA>"

NoKey == -1

NoBoard == <<NA>>

SecondsPerDay == 86400

\* ------------------------------------------------------------ data frames
RECURSIVE UniqueAcc(_, _)
UniqueAcc(s, acc) ==
  IF s = <<>> THEN acc
  ELSE UniqueAcc(Tail(s),
                 IF \E j \in 1..Len(acc) : acc[j] = Head(s)
                 THEN acc ELSE Append(acc, Head(s)))

\* Series.unique(): the distinct values in first-seen order, NaN being one value
Unique(s) == UniqueAcc(s, <<>>)

Col(df, c) == [i \in 1..Len(df) |-> df[i][c]]

Project(df, cols) == [i \in 1..Len(df) |-> [c \in cols |-> df[i][c]]]

\* df[cols].drop_duplicates(): first occurrence kept, NaN equal to NaN
DropDuplicates(df, cols) == Unique(Project(df, cols))

Range(s) == {s[i] : i \in 1..Len(s)}

\* ------------------------------------------------------------------ store
OLTP_SCHEMA_TABLES ==
  <<"agency", "complaint", "borough", "park", "location", "service_request">>

OLAP_SCHEMA_TABLES ==
  <<"dim_agency", "dim_complaint", "dim_date", "dim_channel",
    "dim_resolution", "dim_location", "fact_service_request">>

Tables == Range(OLTP_SCHEMA_TABLES) \cup Range(OLAP_SCHEMA_TABLES)

\* pk: the INTEGER PRIMARY KEY; unique: the UNIQUE columns; notnull: the
\* NOT NULL columns the loaders can hand a missing value, each with the
\* value that stands for NULL in it; fk: column -> <<table, its key>>
OLTP_Schema ==
  [agency |-> [pk |-> "agency_id", unique |-> {"agency_code"},
               notnull |-> <<>>, fk |-> <<>>],
   complaint |-> [pk |-> "complaint_id", unique |-> {},
                  notnull |-> <<>>, fk |-> <<>>],
   borough |-> [pk |-> "borough_id", unique |-> {"borough_name"},
                notnull |-> <<>>, fk |-> <<>>],
   park |-> [pk |-> "park_id", unique |-> {},
             notnull |-> <<>>, fk |-> <<>>],
   location |-> [pk |-> "location_id", unique |-> {}, notnull |-> <<>>,
                 fk |-> [borough_id |-> <<"borough", "borough_id">>]],
   service_request |->
     [pk |-> "request_id", unique |-> {}, notnull |-> <<>>,
      fk |-> [agency_id |-> <<"agency", "agency_id">>,
              complaint_id |-> <<"complaint", "complaint_id">>,
              location_id |-> <<"location", "location_id">>,
              park_id |-> <<"park", "park_id">>]]]

PkConflict(table, s, row) == \E r \in table : r[s.pk] = row[s.pk]

\* UNIQUE: two NULLs never conflict
UniqueConflict(table, s, row) ==
  \E c \in s.unique : row[c] # NA /\ \E r \in table : r[c] = row[c]

NotNullViolation(s, row) == \E c \in DOMAIN s.notnull : row[c] = s.notnull[c]

\* With PRAGMA foreign_keys on, a non-null reference must name an existing
\* row.  create_schema turns it on; clear_tables turns it off and its
\* "PRAGMA foreign_keys = ON" runs inside the transaction its DELETEs opened,
\* where SQLite ignores it, so the connection stays without enforcement.
FkViolation(d, s, row) ==
  \E c \in DOMAIN s.fk :
    /\ foreign_keys
    /\ row[c] # NoKey
    /\ ~ \E r \in d[s.fk[c][1]] : r[s.fk[c][2]] = row[c]

\* One statement's outcome on store d: the store after it, or the error raised
Ok(d) == [ok |-> TRUE, db |-> d, error |-> "none"]

\* an exception that leaves the loader: d is the store as the connection has
\* written it so far, not committed
Raise(e, d) == [ok |-> FALSE, db |-> d, error |-> e]

\* variant: the statement without OR IGNORE
InsertOrRaise(d, t, s, row) ==
  IF NotNullViolation(s, row) \/ PkConflict(d[t], s, row)
     \/ UniqueConflict(d[t], s, row) \/ FkViolation(d, s, row)
  THEN Raise("IntegrityError", d)
  ELSE Ok([d EXCEPT ![t] = @ \cup {row}])

\* INSERT OR IGNORE: a primary-key, UNIQUE or NOT NULL conflict skips the row
\* without an error; a foreign-key violation is not covered by OR IGNORE
InsertOrIgnore(d, t, s, row) ==
  IF NotNullViolation(s, row) \/ PkConflict(d[t], s, row)
     \/ UniqueConflict(d[t], s, row)
  THEN Ok(d)
  ELSE IF FkViolation(d, s, row) THEN Raise("IntegrityError", d)
  ELSE Ok([d EXCEPT ![t] = @ \cup {row}])

\* plain INSERT: every constraint violation raises
Insert(d, t, s, row) ==
  IF NotNullViolation(s, row) \/ PkConflict(d[t], s, row)
     \/ UniqueConflict(d[t], s, row) \/ FkViolation(d, s, row)
  THEN Raise("IntegrityError", d)
  ELSE Ok([d EXCEPT ![t] = @ \cup {row}])

\* cur.fetchall() of a SELECT without ORDER BY: SQLite scans by rowid, which
\* is the INTEGER PRIMARY KEY
RECURSIVE FetchAllFrom(_, _)
FetchAllFrom(table, pk) ==
  IF table = {} THEN <<>>
  ELSE LET r == CHOOSE x \in table : \A y \in table : x[pk] <= y[pk]
       IN <<r>> \o FetchAllFrom(table \ {r}, pk)

Max(S) == CHOOSE x \in S : \A y \in S : y <= x

\* m = {}; for row in rows: m[key] = row[0]   held as the sequence of its
\* <<key, value>> items in insertion order: a later item overwrites an earlier
\* one with the same key.  m.get(k, None).  A NaN key (isnan) equals no key of
\* the dictionary, a NULL of the store being None there.
DictGet(items, k, isnan) ==
  LET hits == {i \in 1..Len(items) : items[i][1] = k}
  IN IF isnan \/ hits = {} THEN NoKey ELSE items[Max(hits)][2]

\* m[k]: KeyError when k is no key of the dictionary
DictHas(items, k, isnan) == DictGet(items, k, isnan) # NoKey

RECURSIVE InsertAllOrIgnore(_, _, _, _)
InsertAllOrIgnore(d, t, s, rows) ==
  IF rows = <<>> THEN Ok(d)
  ELSE LET r == InsertOrIgnore(d, t, s, Head(rows))
       IN IF r.ok THEN InsertAllOrIgnore(r.db, t, s, Tail(rows)) ELSE r

EmptyStore == [t \in Tables |-> {}]

\* ------------------------------------------------------- timestamp cells
Stamp(t) == [kind |-> "stamp", t |-> t]

NoStamp == [kind |-> "NA", t |-> 0]

BadStamp == [kind |-> "unparseable", t |-> 0]

NaT == [kind |-> "NaT", t |-> 0]

\* ---------------------------------------------------- 02_OLTP.py
\* requests.csv: the raw records the runs draw their input from.  The
\* location columns after incident_zip are carried like latitude.
RawBase ==
  [agency |-> "NYPD", agency_name |-> "Police Department",
   complaint_type |-> "Noise", descriptor |-> "Loud Music",
   borough |-> "BRONX", park_facility_name |-> "Unspecified",
   park_borough |-> "BRONX", community_board |-> <<"05", "BRONX">>,
   incident_zip |-> "10451", latitude |-> "40.8",
   created_date |-> Stamp(7200), closed_date |-> Stamp(136800),
   open_data_channel_type |-> "PHONE",
   resolution_description |-> "police issued a summons"]

\* The file read by one run is a run of at most MaxRecords consecutive rows
\* of RawFile.
RawFile ==
  << [RawBase EXCEPT !.agency = NA, !.agency_name = NA, !.borough = NA,
                     !.complaint_type = NA, !.closed_date = Stamp(0)],
     RawBase,
     [RawBase EXCEPT !.agency_name = "NYPD",
                     !.complaint_type = "Illegal Parking",
                     !.descriptor = "Blocked Hydrant",
                     !.park_facility_name = "Astoria Park",
                     !.closed_date = NoStamp, !.latitude = NA],
     [RawBase EXCEPT !.complaint_type = "Blocked Driveway",
                     !.descriptor = "No Access", !.borough = NA,
                     !.community_board = <<"Unspecified">>,
                     !.created_date = Stamp(93661)],
     [RawBase EXCEPT !.agency = "DOT", !.agency_name = "Transportation",
                     !.complaint_type = "Blocked Driveway",
                     !.descriptor = NA, !.borough = "QUEENS",
                     !.park_facility_name = "Astoria Park",
                     !.park_borough = "QUEENS",
                     !.community_board = <<"0", "Unspecified">>,
                     !.incident_zip = NA, !.open_data_channel_type = NA,
                     !.resolution_description = NA],
     [RawBase EXCEPT !.agency = "DOT", !.agency_name = "Transportation",
                     !.community_board = NoBoard, !.borough = NA] >>

SeqsUpTo(S, n) == UNION {[1..k -> S] : k \in 1..n}

\* the non-empty runs of at most n consecutive rows of file
Windows(file, n) ==
  UNION {{SubSeq(file, a, b) : b \in {c \in a..Len(file) : c < a + n}} :
           a \in 1..Len(file)}

RawInputs == Windows(RawFile, MaxRecords)

FirstIndex(col, v) == CHOOSE j \in 1..Len(col) :
                        col[j] = v /\ \A k \in 1..(j - 1) : col[k] # v

\* add_agency: enumerate(df["agency"].unique()).  For the NaN code,
\* df["agency"] == agency selects no row and .iloc[0] raises IndexError.
OLTP_agency_rows(df) ==
  LET codes == Unique(Col(df, "agency"))
  IN [i \in 1..Len(codes) |->
        [agency_id |-> i - 1, agency_code |-> codes[i],
         agency_name |->
           IF codes[i] = NA THEN NA
           ELSE df[FirstIndex(Col(df, "agency"), codes[i])].agency_name]]

\* the rows of the frame before the first row of bad
Before(df, bad) ==
  SubSeq(df, 1, IF bad = {} THEN Len(df)
                ELSE (CHOOSE i \in bad : \A j \in bad : i <= j) - 1)

\* the agencies before the failing one are written when the loop raises
OLTP_add_agency_op(d, df) ==
  LET bad == {i \in 1..Len(df) : df[i].agency = NA}
      written == InsertAllOrIgnore(d, "agency", OLTP_Schema.agency,
                                   OLTP_agency_rows(Before(df, bad)))
  IN IF written.ok /\ bad # {}
     THEN Raise("IndexError", written.db)
     ELSE written

OLTP_borough_rows(df) ==
  LET names == Unique(Col(df, "borough"))
  IN [i \in 1..Len(names) |-> [borough_id |-> i - 1, borough_name |-> names[i]]]

OLTP_add_borough_op(d, df) ==
  InsertAllOrIgnore(d, "borough", OLTP_Schema.borough, OLTP_borough_rows(df))

OLTP_complaint_rows(df) ==
  LET complaint_types == DropDuplicates(df, {"complaint_type", "descriptor"})
  IN [i \in 1..Len(complaint_types) |->
        [complaint_id |-> i - 1,
         complaint_type |-> complaint_types[i].complaint_type,
         descriptor |-> complaint_types[i].descriptor]]

OLTP_add_complaint_type_op(d, df) ==
  InsertAllOrIgnore(d, "complaint", OLTP_Schema.complaint,
                    OLTP_complaint_rows(df))

OLTP_park_rows(df) ==
  LET parks == DropDuplicates(df, {"park_facility_name", "park_borough"})
  IN [i \in 1..Len(parks) |->
        [park_id |-> i - 1,
         park_facility_name |-> parks[i].park_facility_name,
         park_borough |-> parks[i].park_borough]]

OLTP_add_park_op(d, df) ==
  InsertAllOrIgnore(d, "park", OLTP_Schema.park, OLTP_park_rows(df))

LocationColumns == {"borough", "community_board", "incident_zip", "latitude"}

\* borough_map[row[1]] = row[0] over SELECT borough_id, borough_name
OLTP_borough_map(d) ==
  LET rows == FetchAllFrom(d["borough"], "borough_id")
  IN [i \in 1..Len(rows) |-> <<rows[i].borough_name, rows[i].borough_id>>]

OLTP_location_rows(d, df) ==
  LET locations == DropDuplicates(df, LocationColumns)
  IN [i \in 1..Len(locations) |->
        [location_id |-> i - 1,
         borough_id |-> DictGet(OLTP_borough_map(d), locations[i].borough,
                                locations[i].borough = NA),
         board_id |-> IF locations[i].community_board = <<>> THEN NA
                      ELSE locations[i].community_board[1],
         zip |-> locations[i].incident_zip,
         latitude |-> locations[i].latitude]]

\* row["community_board"].split()[0]: AttributeError on NaN (a float),
\* IndexError on a text without a token
\* the locations before the failing one are written when the loop raises
OLTP_add_location_op(d, df) ==
  LET bad == {i \in 1..Len(df) : df[i].community_board = NoBoard
                                   \/ df[i].community_board = <<>>}
      written == InsertAllOrIgnore(d, "location", OLTP_Schema.location,
                                   OLTP_location_rows(d, Before(df, bad)))
  IN IF written.ok /\ bad # {}
     THEN Raise("AttributeError", written.db)
     ELSE written

\* str() of a cell as a sequence of tokens: None is "None", NaN is "nan"
StrStored(v) == IF v = NA THEN <<"None">> ELSE <<v>>

StrKey(k) == IF k = NoKey THEN <<"None">> ELSE <<ToString(k)>>

StrCell(v) == IF v = NA THEN <<"nan">> ELSE <<v>>

StrBoard(b) == IF b = NoBoard THEN <<"nan">> ELSE b

\* location_map["/".join(map(str, row[1:]))] = row[0] over SELECT * FROM
\* location; the joined text is held as the tuple of its parts
OLTP_location_map(d) ==
  LET rows == FetchAllFrom(d["location"], "location_id")
  IN [i \in 1..Len(rows) |->
        << <<StrKey(rows[i].borough_id), StrStored(rows[i].board_id),
             StrStored(rows[i].zip), StrStored(rows[i].latitude)>>,
           rows[i].location_id >>]

OLTP_location_key(row) ==
  <<StrCell(row.borough), StrBoard(row.community_board),
    StrCell(row.incident_zip), StrCell(row.latitude)>>

\* variant: every agency code is mapped to the key after its own
OLTP_agency_map_shifted(d) ==
  LET rows == FetchAllFrom(d["agency"], "agency_id")
  IN [i \in 1..Len(rows) |-> <<rows[i].agency_code, rows[i].agency_id + 1>>]

OLTP_agency_map(d) ==
  LET rows == FetchAllFrom(d["agency"], "agency_id")
  IN [i \in 1..Len(rows) |-> <<rows[i].agency_code, rows[i].agency_id>>]

\* complaint_map[row[1]] = row[0] over SELECT complaint_id, complaint_type
OLTP_complaint_map(d) ==
  LET rows == FetchAllFrom(d["complaint"], "complaint_id")
  IN [i \in 1..Len(rows) |-> <<rows[i].complaint_type, rows[i].complaint_id>>]

\* park_map[row[1]] = row[0] over SELECT park_id, park_facility_name
OLTP_park_map(d) ==
  LET rows == FetchAllFrom(d["park"], "park_id")
  IN [i \in 1..Len(rows) |-> <<rows[i].park_facility_name, rows[i].park_id>>]

OLTP_service_request_rows(d, df) ==
  [i \in 1..Len(df) |->
     [request_id |-> i - 1,
      created_timestamp |-> df[i].created_date,
      closed_timestamp |-> df[i].closed_date,
      channel |-> df[i].open_data_channel_type,
      agency_id |-> DictGet(OLTP_agency_map(d), df[i].agency,
                            df[i].agency = NA),
      complaint_id |-> DictGet(OLTP_complaint_map(d), df[i].complaint_type,
                               df[i].complaint_type = NA),
      location_id |-> DictGet(OLTP_location_map(d),
                              OLTP_location_key(df[i]), FALSE),
      park_id |-> DictGet(OLTP_park_map(d), df[i].park_facility_name,
                          df[i].park_facility_name = NA),
      resolution_description |-> df[i].resolution_description]]

\* variant: a complaint type that is not in the complaint table is added to it
OLTP_add_service_request_resolving(d, df) ==
  LET r == InsertAllOrIgnore(d, "complaint", OLTP_Schema.complaint,
                             OLTP_complaint_rows(df))
  IN IF r.ok
     THEN InsertAllOrIgnore(r.db, "service_request",
                            OLTP_Schema.service_request,
                            OLTP_service_request_rows(r.db, df))
     ELSE r

\* variant: a record whose complaint lookup misses is left out
OLTP_add_service_request_inner_join(d, df) ==
  InsertAllOrIgnore(d, "service_request", OLTP_Schema.service_request,
                    SelectSeq(OLTP_service_request_rows(d, df),
                              LAMBDA r : r.complaint_id # NoKey))

OLTP_add_service_request_op(d, df) ==
  InsertAllOrIgnore(d, "service_request", OLTP_Schema.service_request,
                    OLTP_service_request_rows(d, df))

\* clear_tables: DELETE FROM every table of the script's schema
ClearTables(d, tables) ==
  [t \in Tables |-> IF t \in Range(tables) THEN {} ELSE d[t]]


\* ---------------------------------------------------- 04_DataWarehouse.py
OLAP_Schema ==
  [dim_date |-> [pk |-> "date_key", unique |-> {},
                 notnull |-> [date |-> NA], fk |-> <<>>],
   dim_agency |-> [pk |-> "agency_key", unique |-> {},
                   notnull |-> [agency_code |-> NA, agency_name |-> NA],
                   fk |-> <<>>],
   dim_complaint |-> [pk |-> "complaint_key", unique |-> {},
                      notnull |-> [complaint_type |-> NA], fk |-> <<>>],
   dim_channel |-> [pk |-> "channel_key", unique |-> {},
                    notnull |-> [channel_name |-> NA], fk |-> <<>>],
   dim_resolution |-> [pk |-> "resolution_key", unique |-> {},
                       notnull |-> [resolution_type |-> NA], fk |-> <<>>],
   dim_location |-> [pk |-> "location_key", unique |-> {},
                     notnull |-> [location_type |-> NA], fk |-> <<>>],
   fact_service_request |->
     [pk |-> "fact_id", unique |-> {},
      notnull |-> [date_key |-> NoKey, agency_key |-> NoKey],
      fk |-> [date_key |-> <<"dim_date", "date_key">>,
              agency_key |-> <<"dim_agency", "agency_key">>,
              complaint_key |-> <<"dim_complaint", "complaint_key">>,
              location_key |-> <<"dim_location", "location_key">>,
              channel_key |-> <<"dim_channel", "channel_key">>,
              resolution_key |-> <<"dim_resolution", "resolution_key">>]]]

\* requests_cleaned.csv: the cleaned records the runs draw their input from.
\* created_timestamp is parseable and waittime is a number >= 0 in every
\* record the cleaning stage writes.
CleanedBase ==
  [request_id |-> 0, created_timestamp |-> Stamp(7200),
   agency_code |-> "NYPD", agency_name |-> "POLICE DEPARTMENT",
   complaint_type |-> "NOISE", complaint_descriptor |-> "LOUD MUSIC",
   channel |-> "PHONE", resolution_type |-> "ENFORCEMENT_ACTION",
   location_type |-> "ADDRESS", board_id |-> "05", borough_name |-> "BRONX",
   zip |-> "10451", city |-> "BRONX", waittime |-> 129600]

\* The file read by one run is a run of at most MaxRecords consecutive rows
\* of CleanedFile: request_id is increasing, with the gaps of the rows the
\* cleaning filter dropped.
CleanedFile ==
  << [CleanedBase EXCEPT !.request_id = 1,
                         !.created_timestamp = Stamp(93661),
                         !.agency_code = NA, !.agency_name = NA,
                         !.complaint_type = "PARKING"],
     [CleanedBase EXCEPT !.request_id = 2,
                         !.created_timestamp = Stamp(180000),
                         !.agency_name = NA,
                         !.channel = "ONLINE"],
     [CleanedBase EXCEPT !.request_id = 3,
                         !.created_timestamp = Stamp(180000),
                         !.agency_code = "DOT",
                         !.agency_name = "TRANSPORTATION",
                         !.complaint_type = NA, !.complaint_descriptor = NA,
                         !.channel = NA, !.location_type = NA,
                         !.board_id = NA, !.waittime = 3600],
     [CleanedBase EXCEPT !.request_id = 5],
     [CleanedBase EXCEPT !.request_id = 6,
                         !.created_timestamp = Stamp(10800),
                         !.complaint_descriptor = "OTHER",
                         !.channel = "ONLINE",
                         !.resolution_type = "NO_VIOLATION_FOUND",
                         !.zip = NA, !.waittime = 0],
     [CleanedBase EXCEPT !.request_id = 8,
                         !.created_timestamp = Stamp(93661),
                         !.agency_code = "DOT",
                         !.agency_name = "TRANSPORTATION",
                         !.complaint_type = NA,
                         !.complaint_descriptor = NA,
                         !.resolution_type = "NO_VIOLATION_FOUND",
                         !.board_id = "0", !.borough_name = "QUEENS",
                         !.city = NA, !.waittime = 43200] >>

CleanedInputs == Windows(CleanedFile, MaxRecords)

\* created_timestamp.dt.date: the calendar day, as days since 1970-01-01
DateOf(stamp) == stamp.t \div SecondsPerDay

\* date.isoformat() of a day of January 1970
Isoformat(day) == "1970-01-" \o ToString(day + 1)

\* Timestamp.weekday(): Monday is 0; 1970-01-01 was a Thursday
Weekday(day) == (day + 3) % 7

DW_agency_rows(df) ==
  LET codes == Unique(Col(df, "agency_code"))
  IN [i \in 1..Len(codes) |->
        [agency_key |-> i - 1, agency_code |-> codes[i],
         agency_name |->
           IF codes[i] = NA THEN NA
           ELSE df[FirstIndex(Col(df, "agency_code"), codes[i])].agency_name]]

DW_add_agency_op(d, df) ==
  LET bad == {i \in 1..Len(df) : df[i].agency_code = NA}
      written == InsertAllOrIgnore(d, "dim_agency", OLAP_Schema.dim_agency,
                                   DW_agency_rows(Before(df, bad)))
  IN IF written.ok /\ bad # {}
     THEN Raise("IndexError", written.db)
     ELSE written

\* the loop of add_date left after its first date
DW_date_rows_first_only(df) ==
  LET unique_dates ==
        Unique([i \in 1..Len(df) |-> DateOf(df[i].created_timestamp)])
  IN [i \in 1..(IF unique_dates = <<>> THEN 0 ELSE 1) |->
        [date_key |-> i - 1, date |-> Isoformat(unique_dates[i]),
         year |-> 1970, month |-> 1, day |-> unique_dates[i] + 1,
         weekday |-> Weekday(unique_dates[i]),
         is_weekend |-> IF Weekday(unique_dates[i]) >= 5 THEN 1 ELSE 0]]

DW_date_rows(df) ==
  LET unique_dates ==
        Unique([i \in 1..Len(df) |-> DateOf(df[i].created_timestamp)])
  IN [i \in 1..Len(unique_dates) |->
        [date_key |-> i - 1, date |-> Isoformat(unique_dates[i]),
         year |-> 1970, month |-> 1, day |-> unique_dates[i] + 1,
         weekday |-> Weekday(unique_dates[i]),
         is_weekend |-> IF Weekday(unique_dates[i]) >= 5 THEN 1 ELSE 0]]

DW_add_date_op(d, df) ==
  InsertAllOrIgnore(d, "dim_date", OLAP_Schema.dim_date, DW_date_rows(df))

DW_complaint_rows(df) ==
  LET complaint_types ==
        DropDuplicates(df, {"complaint_type", "complaint_descriptor"})
  IN [i \in 1..Len(complaint_types) |->
        [complaint_key |-> i - 1,
         complaint_type |-> complaint_types[i].complaint_type,
         descriptor |-> complaint_types[i].complaint_descriptor]]

DW_add_complaint_type_op(d, df) ==
  InsertAllOrIgnore(d, "dim_complaint", OLAP_Schema.dim_complaint,
                    DW_complaint_rows(df))

DW_channel_rows(df) ==
  LET channels == Unique(Col(df, "channel"))
  IN [i \in 1..Len(channels) |->
        [channel_key |-> i - 1, channel_name |-> channels[i]]]

DW_add_channel_op(d, df) ==
  InsertAllOrIgnore(d, "dim_channel", OLAP_Schema.dim_channel,
                    DW_channel_rows(df))

DW_resolution_rows(df) ==
  LET types == Unique(Col(df, "resolution_type"))
  IN [i \in 1..Len(types) |->
        [resolution_key |-> i - 1, resolution_type |-> types[i]]]

DW_add_resolution_op(d, df) ==
  InsertAllOrIgnore(d, "dim_resolution", OLAP_Schema.dim_resolution,
                    DW_resolution_rows(df))

DimLocationColumns == {"location_type", "board_id", "borough_name", "zip", "city"}

DW_location_rows(df) ==
  LET locations == DropDuplicates(df, DimLocationColumns)
  IN [i \in 1..Len(locations) |->
        [location_key |-> i - 1,
         location_type |-> locations[i].location_type,
         board_id |-> locations[i].board_id,
         borough |-> locations[i].borough_name,
         zip |-> locations[i].zip,
         city |-> locations[i].city]]

DW_add_location_op(d, df) ==
  InsertAllOrIgnore(d, "dim_location", OLAP_Schema.dim_location,
                    DW_location_rows(df))

\* the six dictionaries add_service_request builds from the dimensions
DW_map(d, t, pk, col) ==
  LET rows == FetchAllFrom(d[t], pk)
  IN [i \in 1..Len(rows) |-> <<rows[i][col], rows[i][pk]>>]

DW_location_map(d) ==
  LET rows == FetchAllFrom(d["dim_location"], "location_key")
  IN [i \in 1..Len(rows) |->
        << <<rows[i].location_type, rows[i].board_id, rows[i].borough,
             rows[i].zip, rows[i].city>>, rows[i].location_key >>]

\* (location_type, board_id, borough_name, str(zip), city) of a record; a NaN
\* component equals no stored component, and str(NaN) is "nan"
DW_location_key(row) ==
  <<row.location_type, row.board_id, row.borough_name,
    IF row.zip = NA THEN "nan" ELSE row.zip, row.city>>

DW_location_key_isnan(row) ==
  NA \in {row.location_type, row.board_id, row.borough_name, row.city}

\* every lookup of the loop written as dict[key]: a missing complaint type
\* raises as well
DW_fact_raises_on_complaint(d, row) ==
  \/ ~DictHas(DW_map(d, "dim_date", "date_key", "date"),
              Isoformat(DateOf(row.created_timestamp)), FALSE)
  \/ ~DictHas(DW_map(d, "dim_agency", "agency_key", "agency_code"),
              row.agency_code, row.agency_code = NA)
  \/ ~DictHas(DW_map(d, "dim_complaint", "complaint_key", "complaint_type"),
              row.complaint_type, row.complaint_type = NA)
  \/ ~DictHas(DW_map(d, "dim_channel", "channel_key", "channel_name"),
              row.channel, row.channel = NA)
  \/ ~DictHas(DW_map(d, "dim_resolution", "resolution_key", "resolution_type"),
              row.resolution_type, row.resolution_type = NA)

\* date_map[...], agency_map[...], channel_map[...], resolution_map[...]:
\* a missing key raises KeyError
DW_fact_raises(d, row) ==
  \/ ~DictHas(DW_map(d, "dim_date", "date_key", "date"),
              Isoformat(DateOf(row.created_timestamp)), FALSE)
  \/ ~DictHas(DW_map(d, "dim_agency", "agency_key", "agency_code"),
              row.agency_code, row.agency_code = NA)
  \/ ~DictHas(DW_map(d, "dim_channel", "channel_key", "channel_name"),
              row.channel, row.channel = NA)
  \/ ~DictHas(DW_map(d, "dim_resolution", "resolution_key", "resolution_type"),
              row.resolution_type, row.resolution_type = NA)

\* the row with the day count stored in both wait-time columns
DW_fact_row_days_twice(d, row) ==
  [fact_id |-> row.request_id,
   date_key |-> DictGet(DW_map(d, "dim_date", "date_key", "date"),
                        Isoformat(DateOf(row.created_timestamp)), FALSE),
   agency_key |-> DictGet(DW_map(d, "dim_agency", "agency_key", "agency_code"),
                          row.agency_code, row.agency_code = NA),
   complaint_key |->
     DictGet(DW_map(d, "dim_complaint", "complaint_key", "complaint_type"),
             row.complaint_type, row.complaint_type = NA),
   location_key |-> DictGet(DW_location_map(d), DW_location_key(row),
                            DW_location_key_isnan(row)),
   channel_key |-> DictGet(DW_map(d, "dim_channel", "channel_key", "channel_name"),
                           row.channel, row.channel = NA),
   resolution_key |->
     DictGet(DW_map(d, "dim_resolution", "resolution_key", "resolution_type"),
             row.resolution_type, row.resolution_type = NA),
   wait_time_hours |-> row.waittime,
   wait_time_days |-> row.waittime]

DW_fact_row(d, row) ==
  [fact_id |-> row.request_id,
   date_key |-> DictGet(DW_map(d, "dim_date", "date_key", "date"),
                        Isoformat(DateOf(row.created_timestamp)), FALSE),
   agency_key |-> DictGet(DW_map(d, "dim_agency", "agency_key", "agency_code"),
                          row.agency_code, row.agency_code = NA),
   complaint_key |->
     DictGet(DW_map(d, "dim_complaint", "complaint_key", "complaint_type"),
             row.complaint_type, row.complaint_type = NA),
   location_key |-> DictGet(DW_location_map(d), DW_location_key(row),
                            DW_location_key_isnan(row)),
   channel_key |-> DictGet(DW_map(d, "dim_channel", "channel_key", "channel_name"),
                           row.channel, row.channel = NA),
   resolution_key |->
     DictGet(DW_map(d, "dim_resolution", "resolution_key", "resolution_type"),
             row.resolution_type, row.resolution_type = NA),
   wait_time_hours |-> row.waittime * 24,
   wait_time_days |-> row.waittime]

\* for fact_id, row in df.iterrows(): look up, then a plain INSERT.  The
\* dictionaries are built once, from the dimensions as they were at the call.
RECURSIVE DW_fact_loop(_, _, _)
DW_fact_loop(d, d0, rows) ==
  IF rows = <<>> THEN Ok(d)
  ELSE IF DW_fact_raises(d0, Head(rows)) THEN Raise("KeyError", d)
  ELSE LET r == Insert(d, "fact_service_request",
                       OLAP_Schema.fact_service_request,
                       DW_fact_row(d0, Head(rows)))
       IN IF r.ok THEN DW_fact_loop(r.db, d0, Tail(rows)) ELSE r

DW_add_service_request_op(d, df) == DW_fact_loop(d, d, df)

\* ---------------------------------------------------- 03_DataProcessing.py
\* The frame pd.read_sql_query returns: one row per service_request row, in
\* request_id order, with the columns the steps below read.
StampCells == {Stamp(0), Stamp(7200), Stamp(93661), Stamp(136800), NoStamp, BadStamp}

FrameRows ==
  [created_timestamp : StampCells \ {Stamp(0), Stamp(136800)},
   closed_timestamp : StampCells,
   resolution_description : {NA, "police issued a summons"}]

FrameInputs ==
  {[i \in 1..Len(rows) |->
      [c \in DOMAIN rows[i] \cup {"request_id"} |->
         IF c = "request_id" THEN i - 1 ELSE rows[i][c]]] :
     rows \in SeqsUpTo(FrameRows, MaxFrameRows)}

CLEAN_STEPS == <<"to_datetime", "waittime", "filter_waittime", "dropna">>

\* pd.to_datetime(column) with the default errors="raise": a missing cell
\* becomes NaT, a text that is no timestamp raises for the whole column
to_datetime_raises(df, c) == \E i \in 1..Len(df) : df[i][c] = BadStamp

to_datetime(cell) == IF cell = NoStamp THEN NaT ELSE cell

\* closed - created: a Timedelta in whole seconds, NaT when either side is NaT
NaTd == [na |-> TRUE, seconds |-> 0]

Timedelta(closed, created) ==
  IF closed = NaT \/ created = NaT THEN NaTd
  ELSE [na |-> FALSE, seconds |-> closed.t - created.t]

\* Timedelta.components: days is the floor of the difference in days, and
\* hours, minutes and seconds are the non-negative remainder
Components(td) ==
  <<td.seconds \div SecondsPerDay,
    (td.seconds % SecondsPerDay) \div 3600,
    (td.seconds % 3600) \div 60,
    td.seconds % 60>>

Abs(x) == IF x < 0 THEN -x ELSE x

None == [na |-> TRUE, days |-> 0]

Days(x) == [na |-> FALSE, days |-> x]

\* conv_to_days, its result held as SecondsPerDay * (the float it returns);
\* NaT has no .components and the bare except returns None
conv_to_days(waittime) ==
  IF waittime.na THEN None
  ELSE LET c == Components(waittime)
           days == Abs(c[1]) * SecondsPerDay
           hours == c[2] * 3600
           mins == c[3] * 60
           secs == c[4]
       IN IF c[1] < 0 THEN Days((days + hours + mins + secs) * (-1))
          ELSE Days(days + hours + mins + secs)

WithColumn(row, c, v) ==
  [k \in DOMAIN row \cup {c} |-> IF k = c THEN v ELSE row[k]]

\* df["waittime"] = (closed_timestamp - created_timestamp).map(conv_to_days)
AddWaittime(df) ==
  [i \in 1..Len(df) |->
     WithColumn(df[i], "waittime",
                conv_to_days(Timedelta(df[i].closed_timestamp,
                                       df[i].created_timestamp)))]

\* variant: df[df["waittime"] > 0]
WaittimeKeptPositive(row) == ~row.waittime.na /\ row.waittime.days > 0

\* df[df["waittime"] >= 0]: a comparison with NaN is False
WaittimeKept(row) == ~row.waittime.na /\ row.waittime.days >= 0

FilterWaittime(df) == SelectSeq(df, WaittimeKept)

\* df.dropna(subset=["resolution_description"])
ResolutionKept(row) == row.resolution_description # NA

DropnaResolution(df) == SelectSeq(df, ResolutionKept)

\* ------------------------------------------------------------ processes
NeverLoaded == [t \in Tables |-> "no"]

NotCalled == [t \in Tables |-> "no"]

Exited == 0

Returned(tables) == Len(tables) + 1

Dispatching(tables, t) == pc \in 1..Len(tables) /\ tables[pc] = t

\* A loader called on table t returns (r.ok: its batch is committed) or
\* raises (the process ends and the uncommitted batch is lost).
\* every statement committed as it is executed
LoaderReturns_autocommit(r, t, next) ==
  /\ db' = r.db
  /\ err' = ~r.ok
  /\ pc' = IF r.ok THEN next ELSE Exited
  /\ called' = [called EXCEPT ![t] = IF db[t] = {} THEN "empty" ELSE "populated"]
  /\ loaded' = [loaded EXCEPT ![t] = IF ~r.ok THEN @
                                      ELSE IF @ = "no" THEN "once" ELSE "again"]
  /\ UNCHANGED <<script, requests, requests_cleaned, frame, featured, fresh,
                 foreign_keys, runs, cat_col, val_cts, description,
                 resolution_type>>

\* conn.commit() as the last statement of the loader; an exception leaves the
\* script before it, and the connection goes without a commit
LoaderReturns(r, t, next) ==
  /\ db' = IF r.ok THEN r.db ELSE db
  /\ err' = ~r.ok
  /\ pc' = IF r.ok THEN next ELSE Exited
  /\ called' = [called EXCEPT ![t] = IF db[t] = {} THEN "empty" ELSE "populated"]
  /\ loaded' = [loaded EXCEPT ![t] = IF ~r.ok THEN @
                                      ELSE IF @ = "no" THEN "once" ELSE "again"]
  /\ UNCHANGED <<script, requests, requests_cleaned, frame, featured, fresh,
                 foreign_keys, runs, cat_col, val_cts, description,
                 resolution_type>>

\* __main__: create_schema, the two prompts (clear_tables on the first),
\* pd.read_csv and the call of add_contents.  A run starts when no earlier run
\* is in progress.
OLTP_main ==
  /\ script = "02_OLTP"
  /\ pc \in {Exited, Returned(OLTP_SCHEMA_TABLES)}
  /\ runs < MaxRuns
  /\ runs' = runs + 1
  /\ \E input \in RawInputs, clear \in BOOLEAN, add \in BOOLEAN :
       /\ db' = IF clear THEN ClearTables(db, OLTP_SCHEMA_TABLES) ELSE db
       /\ fresh' = (add /\ \A t \in Tables : db'[t] = {})
       /\ foreign_keys' = ~clear
       /\ requests' = IF add THEN input ELSE requests
       /\ pc' = IF add THEN 1 ELSE Exited
       /\ loaded' = IF clear \/ (add /\ input # requests)
                    THEN NeverLoaded ELSE loaded
  /\ err' = FALSE
  /\ called' = NotCalled
  /\ UNCHANGED <<script, requests_cleaned, frame, featured, cat_col, val_cts,
                 description, resolution_type>>

OLTP_cases ==
  {"agency", "borough", "complaint_type", "park", "location", "service_request"}

\* add_contents, a table name that matches no case: nothing is loaded
OLTP_no_case ==
  /\ script = "02_OLTP"
  /\ pc \in 1..Len(OLTP_SCHEMA_TABLES)
  /\ OLTP_SCHEMA_TABLES[pc] \notin OLTP_cases
  /\ pc' = pc + 1
  /\ UNCHANGED <<script, err, db, requests, requests_cleaned, frame, featured,
                 called, loaded, fresh, foreign_keys, runs, cat_col, val_cts,
                 description, resolution_type>>

OLTP_add_agency ==
  /\ script = "02_OLTP"
  /\ Dispatching(OLTP_SCHEMA_TABLES, "agency")
  /\ LoaderReturns(OLTP_add_agency_op(db, requests), "agency", pc + 1)

OLTP_add_borough ==
  /\ script = "02_OLTP"
  /\ Dispatching(OLTP_SCHEMA_TABLES, "borough")
  /\ LoaderReturns(OLTP_add_borough_op(db, requests), "borough", pc + 1)

\* add_contents dispatches add_complaint_type on the name "complaint_type",
\* which OLTP_SCHEMA_TABLES does not hold; the loader runs when a caller of
\* the module calls it, before add_contents starts or after it returned.
OLTP_add_complaint_type ==
  /\ script = "02_OLTP"
  /\ pc \in {1, Returned(OLTP_SCHEMA_TABLES)}
  /\ LoaderReturns(OLTP_add_complaint_type_op(db, requests), "complaint", pc)

OLTP_add_park ==
  /\ script = "02_OLTP"
  /\ Dispatching(OLTP_SCHEMA_TABLES, "park")
  /\ LoaderReturns(OLTP_add_park_op(db, requests), "park", pc + 1)

OLTP_add_location ==
  /\ script = "02_OLTP"
  /\ Dispatching(OLTP_SCHEMA_TABLES, "location")
  /\ LoaderReturns(OLTP_add_location_op(db, requests), "location", pc + 1)

OLTP_add_service_request ==
  /\ script = "02_OLTP"
  /\ Dispatching(OLTP_SCHEMA_TABLES, "service_request")
  /\ LoaderReturns(OLTP_add_service_request_op(db, requests),
                   "service_request", pc + 1)

\* ----------------------------------------------- 04_DataWarehouse actions
\* __main__: create_schema, the two prompts, pd.read_csv with the request_id
\* index and the call of add_contents
DW_main ==
  /\ script = "04_DataWarehouse"
  /\ pc \in {Exited, Returned(OLAP_SCHEMA_TABLES)}
  /\ runs < MaxRuns
  /\ runs' = runs + 1
  /\ \E input \in CleanedInputs, clear \in BOOLEAN, add \in BOOLEAN :
       /\ db' = IF clear THEN ClearTables(db, OLAP_SCHEMA_TABLES) ELSE db
       /\ fresh' = (add /\ \A t \in Tables : db'[t] = {})
       /\ foreign_keys' = ~clear
       /\ requests_cleaned' = IF add THEN input ELSE requests_cleaned
       /\ pc' = IF add THEN 1 ELSE Exited
       /\ loaded' = IF clear \/ (add /\ input # requests_cleaned)
                    THEN NeverLoaded ELSE loaded
  /\ err' = FALSE
  /\ called' = NotCalled
  /\ UNCHANGED <<script, requests, frame, featured, cat_col, val_cts,
                 description, resolution_type>>

DW_add_agency ==
  /\ script = "04_DataWarehouse"
  /\ Dispatching(OLAP_SCHEMA_TABLES, "dim_agency")
  /\ LoaderReturns(DW_add_agency_op(db, requests_cleaned), "dim_agency", pc + 1)

DW_add_complaint_type ==
  /\ script = "04_DataWarehouse"
  /\ Dispatching(OLAP_SCHEMA_TABLES, "dim_complaint")
  /\ LoaderReturns(DW_add_complaint_type_op(db, requests_cleaned),
                   "dim_complaint", pc + 1)

DW_add_date ==
  /\ script = "04_DataWarehouse"
  /\ Dispatching(OLAP_SCHEMA_TABLES, "dim_date")
  /\ LoaderReturns(DW_add_date_op(db, requests_cleaned), "dim_date", pc + 1)

DW_add_channel ==
  /\ script = "04_DataWarehouse"
  /\ Dispatching(OLAP_SCHEMA_TABLES, "dim_channel")
  /\ LoaderReturns(DW_add_channel_op(db, requests_cleaned), "dim_channel", pc + 1)

DW_add_resolution ==
  /\ script = "04_DataWarehouse"
  /\ Dispatching(OLAP_SCHEMA_TABLES, "dim_resolution")
  /\ LoaderReturns(DW_add_resolution_op(db, requests_cleaned),
                   "dim_resolution", pc + 1)

DW_add_location ==
  /\ script = "04_DataWarehouse"
  /\ Dispatching(OLAP_SCHEMA_TABLES, "dim_location")
  /\ LoaderReturns(DW_add_location_op(db, requests_cleaned),
                   "dim_location", pc + 1)

DW_add_service_request ==
  /\ script = "04_DataWarehouse"
  /\ Dispatching(OLAP_SCHEMA_TABLES, "fact_service_request")
  /\ LoaderReturns(DW_add_service_request_op(db, requests_cleaned),
                   "fact_service_request", pc + 1)

\* ---------------------------------------------- 03_DataProcessing actions
\* __main__.  The script keeps nothing from one invocation to the next, so a
\* behaviour follows one invocation.
Clean_main ==
  /\ script = "03_DataProcessing"
  /\ pc = Exited
  /\ runs = 0
  /\ runs' = runs + 1
  /\ \E input \in FrameInputs : frame' = input
  /\ featured' = <<>>
  /\ pc' = 1
  /\ err' = FALSE
  /\ UNCHANGED <<script, db, requests, requests_cleaned, called, loaded,
                 fresh, foreign_keys, cat_col, val_cts, description,
                 resolution_type>>

Clean_to_datetime ==
  /\ script = "03_DataProcessing"
  /\ Dispatching(CLEAN_STEPS, "to_datetime")
  /\ IF to_datetime_raises(frame, "created_timestamp")
        \/ to_datetime_raises(frame, "closed_timestamp")
     THEN err' = TRUE /\ pc' = Exited /\ frame' = frame
     ELSE /\ err' = FALSE
          /\ pc' = pc + 1
          /\ frame' = [i \in 1..Len(frame) |->
               [frame[i] EXCEPT
                  !.created_timestamp = to_datetime(@),
                  !.closed_timestamp = to_datetime(@)]]
  /\ UNCHANGED <<script, db, requests, requests_cleaned, featured, called,
                 loaded, fresh, foreign_keys, runs, cat_col, val_cts,
                 description, resolution_type>>

Clean_waittime ==
  /\ script = "03_DataProcessing"
  /\ Dispatching(CLEAN_STEPS, "waittime")
  /\ frame' = AddWaittime(frame)
  /\ featured' = AddWaittime(frame)
  /\ pc' = pc + 1
  /\ UNCHANGED <<script, err, db, requests, requests_cleaned, called, loaded,
                 fresh, foreign_keys, runs, cat_col, val_cts, description,
                 resolution_type>>

Clean_filter_waittime ==
  /\ script = "03_DataProcessing"
  /\ Dispatching(CLEAN_STEPS, "filter_waittime")
  /\ frame' = FilterWaittime(frame)
  /\ pc' = pc + 1
  /\ UNCHANGED <<script, err, db, requests, requests_cleaned, featured,
                 called, loaded, fresh, foreign_keys, runs, cat_col, val_cts,
                 description, resolution_type>>

Clean_dropna ==
  /\ script = "03_DataProcessing"
  /\ Dispatching(CLEAN_STEPS, "dropna")
  /\ frame' = DropnaResolution(frame)
  /\ pc' = pc + 1
  /\ UNCHANGED <<script, err, db, requests, requests_cleaned, featured,
                 called, loaded, fresh, foreign_keys, runs, cat_col, val_cts,
                 description, resolution_type>>

Init ==
  /\ pc = Exited
  /\ err = FALSE
  /\ db = EmptyStore
  /\ requests = <<>>
  /\ requests_cleaned = <<>>
  /\ frame = <<>>
  /\ featured = <<>>
  /\ called = NotCalled
  /\ fresh = FALSE
  /\ foreign_keys = TRUE
  /\ loaded = NeverLoaded
  /\ runs = 0

NoColumn == cat_col = <<>> /\ val_cts = <<>>

NoNarrative == description = "" /\ resolution_type = ""

\* ------------------------------------------- 03_DataProcessing: join query

\* the columns of the tables made by create_schema of 02_OLTP.py
OLTP_Columns ==
  [agency |-> {"agency_id", "agency_code", "agency_name"},
   complaint |-> {"complaint_id", "complaint_type", "descriptor"},
   borough |-> {"borough_id", "borough_name"},
   park |-> {"park_id", "park_facility_name", "park_borough"},
   location |->
     {"location_id", "borough_id", "board_id", "zip", "city", "latitude",
      "longitude", "x_coordinate_state_plane", "y_coordinate_state_plane",
      "incident_address", "street_name", "cross_street_1", "cross_street_2",
      "intersection_street_1", "intersection_street_2", "landmark", "bbl"},
   service_request |->
     {"request_id", "created_timestamp", "closed_timestamp",
      "resolution_action_updated_timestamp", "status", "channel", "agency_id",
      "complaint_id", "location_id", "park_id", "resolution_description"}]

\* the select list of the query: table, column, name in the frame
QueryColumns ==
  << <<"service_request", "request_id", "request_id">>,
     <<"service_request", "created_timestamp", "created_timestamp">>,
     <<"service_request", "closed_timestamp", "closed_timestamp">>,
     <<"service_request", "resolution_action_updated_timestamp",
       "resolution_action_updated_timestamp">>,
     <<"service_request", "status", "status">>,
     <<"service_request", "channel", "channel">>,
     <<"service_request", "resolution_description", "resolution_description">>,
     <<"agency", "agency_code", "agency_code">>,
     <<"agency", "agency_name", "agency_name">>,
     <<"complaint", "complaint_type", "complaint_type">>,
     <<"complaint", "descriptor", "complaint_descriptor">>,
     <<"location", "board_id", "board_id">>,
     <<"location", "zip", "zip">>,
     <<"location", "city", "city">>,
     <<"location", "latitude", "latitude">>,
     <<"location", "longitude", "longitude">>,
     <<"location", "x_coordinate_state_plane", "x_coordinate_state_plane">>,
     <<"location", "y_coordinate_state_plane", "y_coordinate_state_plane">>,
     <<"location", "location_type", "location_type">>,
     <<"location", "incident_address", "incident_address">>,
     <<"location", "street_name", "street_name">>,
     <<"location", "cross_street_1", "cross_street_1">>,
     <<"location", "cross_street_2", "cross_street_2">>,
     <<"location", "intersection_street_1", "intersection_street_1">>,
     <<"location", "intersection_street_2", "intersection_street_2">>,
     <<"location", "landmark", "landmark">>,
     <<"location", "bbl", "bbl">>,
     <<"borough", "borough_name", "borough_name">>,
     <<"park", "park_facility_name", "park_facility_name">>,
     <<"park", "park_borough", "park_borough">> >>

\* the columns the script adds to the frame before it writes the cleaned file
FeatureColumns ==
  {"waittime", "created_year", "created_month", "created_day", "created_hour",
   "created_weekday", "closed_year", "closed_month", "closed_day",
   "closed_hour", "closed_weekday", "has_precise_location", "resolution_type"}

\* pd.read_sql_query(query, conn) on the store the loader script has left: a
\* selected column that its table does not have makes SQLite reject the
\* statement (OperationalError); otherwise the LEFT JOINs on primary keys
\* deliver one row per service_request row, in request_id order
Clean_read_sql_query ==
  /\ script = "02_OLTP"
  /\ pc \in {Exited, Returned(OLTP_SCHEMA_TABLES)}
  /\ script' = "03_DataProcessing"
  /\ LET missing == {k \in 1..Len(QueryColumns) :
                       QueryColumns[k][2] \notin OLTP_Columns[QueryColumns[k][1]]}
         rows == FetchAllFrom(db["service_request"], "request_id")
     IN /\ err' = (missing # {})
        /\ pc' = IF missing = {} THEN 1 ELSE Exited
        /\ frame' = IF missing # {} THEN <<>>
                    ELSE [i \in 1..Len(rows) |->
                            [request_id |-> rows[i].request_id,
                             created_timestamp |-> rows[i].created_timestamp,
                             closed_timestamp |-> rows[i].closed_timestamp,
                             resolution_description |->
                               rows[i].resolution_description]]
  /\ UNCHANGED <<db, requests, requests_cleaned, featured, called, loaded,
                 fresh, foreign_keys, runs, cat_col, val_cts, description,
                 resolution_type>>

\* the two loading scripts, each on its own store, and the query of the
\* cleaning script on the store of the first
InitLoaders ==
  script \in {"02_OLTP", "04_DataWarehouse"} /\ Init /\ NoColumn /\ NoNarrative

NextLoaders ==
  \/ OLTP_main
  \/ OLTP_no_case
  \/ OLTP_add_agency
  \/ OLTP_add_borough
  \/ OLTP_add_complaint_type
  \/ OLTP_add_park
  \/ OLTP_add_location
  \/ OLTP_add_service_request
  \/ DW_main
  \/ DW_add_agency
  \/ DW_add_complaint_type
  \/ DW_add_date
  \/ DW_add_channel
  \/ DW_add_resolution
  \/ DW_add_location
  \/ DW_add_service_request
  \/ Clean_read_sql_query

SpecLoaders == InitLoaders /\ [][NextLoaders]_vars

\* the cleaning script
InitCleaning == script = "03_DataProcessing" /\ Init /\ NoColumn /\ NoNarrative

NextCleaning ==
  \/ Clean_main
  \/ Clean_to_datetime
  \/ Clean_waittime
  \/ Clean_filter_waittime
  \/ Clean_dropna

SpecCleaning == InitCleaning /\ [][NextCleaning]_vars

\* ------------------------------- 03_DataProcessing.py: categorical columns
Lowercase ==
  <<"a", "b", "c", "d", "e", "f", "g", "h", "i", "j", "k", "l", "m",
    "n", "o", "p", "q", "r", "s", "t", "u", "v", "w", "x", "y", "z">>

Uppercase ==
  <<"A", "B", "C", "D", "E", "F", "G", "H", "I", "J", "K", "L", "M",
    "N", "O", "P", "Q", "R", "S", "T", "U", "V", "W", "X", "Y", "Z">>

UpperChar(c) ==
  IF \E i \in 1..Len(Lowercase) : Lowercase[i] = c
  THEN Uppercase[CHOOSE i \in 1..Len(Lowercase) : Lowercase[i] = c]
  ELSE c

\* str.upper(): every character of the text replaced by its capital
RECURSIVE Upper(_)
Upper(text) ==
  IF Len(text) = 0 THEN ""
  ELSE IF Len(text) = 1 THEN UpperChar(text)
  ELSE LET half == Len(text) \div 2
       IN  Upper(SubSeq(text, 1, half)) \o Upper(SubSeq(text, half + 1, Len(text)))

\* the values a column is drawn from: case variants of one agency code, of
\* "unspecified" and of "other"
ColumnValues ==
  {"ny", "Ny", "NY", "unspecified", "Unspecified", "UNSPECIFIED", "other", "OTHER"}

MaxDistinct == 3

Threshold == 100

Counts == {Threshold - 1, Threshold, Threshold + 1, Threshold + 50}

\* the columns: at most MaxDistinct distinct values, each with its number of
\* rows; every row holds the value it was read with
Columns ==
  UNION {{[v \in S |-> [count |-> c[v], value |-> v]] : c \in [S -> Counts]} :
           S \in {T \in SUBSET ColumnValues : Cardinality(T) \in 1..MaxDistinct}}

\* Series.value_counts(): the distinct values with their counts, most
\* frequent first; the order among equal counts is not fixed
ValueCounts(col) ==
  LET n == Cardinality(DOMAIN col)
  IN {[i \in 1..n |-> <<keys[i], col[keys[i]].count>>] :
        keys \in {k \in [1..n -> DOMAIN col] :
                    /\ \A i, j \in 1..n : i # j => k[i] # k[j]
                    /\ \A i, j \in 1..n :
                         i < j => col[k[i]].count >= col[k[j]].count}}

\* variant: only the count decides
new_key_by_count(key, count) == IF count > Threshold THEN Upper(key) ELSE "OTHER"

\* key.upper() if count > 100 or key.upper() == "UNSPECIFIED" else "OTHER"
new_key(key, count) ==
  IF count > Threshold \/ Upper(key) = "UNSPECIFIED" THEN Upper(key) ELSE "OTHER"

\* df.loc[df[col] == key, col] = new_key: every row that holds key now
Reassign(col, key, value) ==
  [v \in DOMAIN col |->
     IF col[v].value = key THEN [col[v] EXCEPT !.value = value] ELSE col[v]]

\* val_cts = df[col].value_counts()
Normalize_value_counts ==
  /\ script = "03_DataProcessing"
  /\ cat_col # <<>>
  /\ pc = Exited
  /\ val_cts = <<>>
  /\ val_cts' \in ValueCounts(cat_col)
  /\ pc' = 1
  /\ UNCHANGED <<script, err, db, requests, requests_cleaned, frame, featured,
                 called, loaded, fresh, foreign_keys, cat_col, description,
                 resolution_type, runs>>

\* one iteration of for i in range(len(unique))
Normalize_key ==
  /\ script = "03_DataProcessing"
  /\ pc \in 1..Len(val_cts)
  /\ cat_col' = Reassign(cat_col, val_cts[pc][1],
                         new_key(val_cts[pc][1], val_cts[pc][2]))
  /\ pc' = pc + 1
  /\ UNCHANGED <<script, err, db, requests, requests_cleaned, frame, featured,
                 called, loaded, fresh, foreign_keys, val_cts, description,
                 resolution_type, runs>>

InitNormalize ==
  /\ script = "03_DataProcessing"
  /\ Init
  /\ NoNarrative
  /\ cat_col \in Columns
  /\ val_cts = <<>>

NextNormalize == Normalize_value_counts \/ Normalize_key

SpecNormalize == InitNormalize /\ [][NextNormalize]_vars

\* C11: after the normalization of a column, every row that held the value v,
\* of frequency f, holds upper(v) if f > 100 or upper(v) = "UNSPECIFIED", and
\* "OTHER" otherwise.
C11_NormalizedByOwnFrequency ==
  (val_cts # <<>> /\ pc = Len(val_cts) + 1) =>
    \A v \in DOMAIN cat_col :
      cat_col[v].value
        = IF cat_col[v].count > Threshold \/ Upper(v) = "UNSPECIFIED"
          THEN Upper(v) ELSE "OTHER"

\* C12: after the normalization of a column, every row that held
\* "unspecified" in any letter case holds "UNSPECIFIED", whatever the
\* frequencies of that value and of its other case variants.
C12_UnspecifiedKept ==
  (val_cts # <<>> /\ pc = Len(val_cts) + 1) =>
    \A v \in DOMAIN cat_col :
      Upper(v) = "UNSPECIFIED" => cat_col[v].value = "UNSPECIFIED"

C12_Witness ==
  /\ val_cts # <<>>
  /\ pc = Len(val_cts) + 1
  /\ \E v, w \in DOMAIN cat_col :
       /\ v # w
       /\ Upper(v) = "UNSPECIFIED" /\ Upper(w) = "UNSPECIFIED"
       /\ cat_col[v].count < Threshold /\ cat_col[w].count > Threshold
       /\ cat_col[v].value = "UNSPECIFIED"
  /\ \E v \in DOMAIN cat_col : cat_col[v].value = "OTHER"

\* ------------------------------------- 03_DataProcessing.py: resolution types

LowerChar(c) ==
  IF \E i \in 1..Len(Uppercase) : Uppercase[i] = c
  THEN Lowercase[CHOOSE i \in 1..Len(Uppercase) : Uppercase[i] = c]
  ELSE c

\* str.lower(): every character of the text replaced by its small letter
RECURSIVE Lower(_)
Lower(text) ==
  IF Len(text) = 0 THEN ""
  ELSE IF Len(text) = 1 THEN LowerChar(text)
  ELSE LET half == Len(text) \div 2
       IN  Lower(SubSeq(text, 1, half)) \o Lower(SubSeq(text, half + 1, Len(text)))

\* kw in d
Contains(d, kw) ==
  \E i \in 1..(Len(d) - Len(kw) + 1) : SubSeq(d, i, i + Len(kw) - 1) = kw

\* any(kw in d for kw in kws)
AnyIn(d, kws) == \E k \in 1..Len(kws) : Contains(d, kws[k])

\* the eight rules in the order the function tries them: the label returned
\* and the keyword list
Rules ==
  <<<<"ENFORCEMENT_ACTION",
      <<"issued a summons", "summons was issued", "police issued a summons",
       "made an arrest", "police made an arrest">>>>,
    <<"REFERRED_TO_OTHER_AGENCY",
      <<"referred to the department of homeless services", "referred to dhs",
       "does not fall under the police department's jurisdiction",
       "does not fall under the jurisdiction", "not under the jurisdiction">>>>,
    <<"UNABLE_TO_COMPLETE_INVESTIGATION",
      <<"unable to gain entry", "insufficient contact information",
       "cannot be processed at this time", "can not be processed at this time">>>>,
    <<"PENDING_INCOMPLETE",
      <<"has been received and assigned",
       "additional information will be available later",
       "complaint has been received">>>>,
    <<"ADMINISTRATIVE_INFORMATIONAL",
      <<"a report was prepared", "police department reviewed your complaint",
       "provided additional information">>>>,
    <<"CONDITION_RESOLVED_NO_ENFORCEMENT",
      <<"condition was corrected", "took action to fix the condition",
       "those responsible for the condition were gone", "requested a tow truck",
       "another specific tow is required">>>>,
    <<"POLICE_RESPONSE_NO_ACTION",
      <<"police action was not necessary", "tow request was not necessary">>>>,
    <<"NO_VIOLATION_FOUND",
      <<"observed no criminal violation", "no evidence of a criminal violation",
       "no evidence of the violation", "observed no encampment",
       "no encampment was found">>>>>>

\* the function with its last rule tried first
map_resolution_to_bucket_last_first(text) ==
  LET d == Lower(text)
  IN  IF AnyIn(d, Rules[8][2]) THEN "NO_VIOLATION_FOUND"
      ELSE IF AnyIn(d, Rules[1][2]) THEN "ENFORCEMENT_ACTION"
      ELSE IF AnyIn(d, Rules[2][2])
           THEN "REFERRED_TO_OTHER_AGENCY"
      ELSE IF AnyIn(d, Rules[3][2])
           THEN "UNABLE_TO_COMPLETE_INVESTIGATION"
      ELSE IF AnyIn(d, Rules[4][2]) THEN "PENDING_INCOMPLETE"
      ELSE IF AnyIn(d, Rules[5][2])
           THEN "ADMINISTRATIVE_INFORMATIONAL"
      ELSE IF AnyIn(d, Rules[6][2])
           THEN "CONDITION_RESOLVED_NO_ENFORCEMENT"
      ELSE IF AnyIn(d, Rules[7][2])
           THEN "POLICE_RESPONSE_NO_ACTION"
      ELSE "NO_VIOLATION_FOUND"

map_resolution_to_bucket(text) ==
  LET d == Lower(text)
  IN  IF AnyIn(d, Rules[1][2]) THEN "ENFORCEMENT_ACTION"
      ELSE IF AnyIn(d, Rules[2][2])
           THEN "REFERRED_TO_OTHER_AGENCY"
      ELSE IF AnyIn(d, Rules[3][2])
           THEN "UNABLE_TO_COMPLETE_INVESTIGATION"
      ELSE IF AnyIn(d, Rules[4][2]) THEN "PENDING_INCOMPLETE"
      ELSE IF AnyIn(d, Rules[5][2])
           THEN "ADMINISTRATIVE_INFORMATIONAL"
      ELSE IF AnyIn(d, Rules[6][2])
           THEN "CONDITION_RESOLVED_NO_ENFORCEMENT"
      ELSE IF AnyIn(d, Rules[7][2])
           THEN "POLICE_RESPONSE_NO_ACTION"
      ELSE IF AnyIn(d, Rules[8][2]) THEN "NO_VIOLATION_FOUND"
      ELSE "NO_VIOLATION_FOUND"

\* sentences a narrative is put together from: for every rule one that holds
\* a keyword of it, in the letter case the agency writes, and three that hold
\* none
Sentences ==
  {"The Police Department issued a summons in response to the complaint.",
   "Officers MADE AN ARREST.",
   "This complaint does not fall under the Police Department's jurisdiction.",
   "Your request was Referred To DHS.",
   "Officers were unable to gain entry into the premises.",
   "Your complaint has been received by the Police Department.",
   "A report was prepared.",
   "The Police Department responded and took action to fix the condition.",
   "Police action was not necessary.",
   "The Police Department observed no evidence of the violation at that time.",
   "Officers observed no encampment.",
   "The summons is issued later.",
   "Thank you for your patience",
   ""}

MaxSentences == 2

RECURSIVE NarrativesOf(_)
NarrativesOf(n) ==
  IF n = 1 THEN Sentences
  ELSE {a \o " " \o b : a \in NarrativesOf(n - 1), b \in Sentences}

Narratives == UNION {NarrativesOf(n) : n \in 1..MaxSentences}

\* df["resolution_description"].apply(map_resolution_to_bucket), one narrative
Bucket_apply ==
  /\ script = "03_DataProcessing"
  /\ pc = Exited
  /\ resolution_type = ""
  /\ resolution_type' = map_resolution_to_bucket(description)
  /\ pc' = 1
  /\ UNCHANGED <<script, err, db, requests, requests_cleaned, frame, featured,
                 called, loaded, fresh, foreign_keys, cat_col, val_cts,
                 description, runs>>

InitBucket ==
  /\ script = "03_DataProcessing"
  /\ Init
  /\ NoColumn
  /\ description \in Narratives
  /\ resolution_type = ""

NextBucket == Bucket_apply

SpecBucket == InitBucket /\ [][NextBucket]_vars

Matching(text) == {i \in 1..Len(Rules) : AnyIn(Lower(text), Rules[i][2])}

\* C13: the bucket of a narrative is the label of the lowest-numbered rule
\* that has a keyword occurring in the lower-cased narrative, and
\* NO_VIOLATION_FOUND when no rule has one; it is one of the eight labels, and
\* a narrative with a rule-1 keyword and a rule-8 keyword is an
\* ENFORCEMENT_ACTION.
C13_LowestRuleWins ==
  (script = "03_DataProcessing" /\ resolution_type # "") =>
    LET hit == Matching(description)
        labels == {Rules[i][1] : i \in 1..Len(Rules)}
    IN  /\ resolution_type \in labels
        /\ Cardinality(labels) = 8
        /\ hit = {} => resolution_type = "NO_VIOLATION_FOUND"
        /\ hit # {} =>
             resolution_type = Rules[CHOOSE i \in hit : \A j \in hit : i <= j][1]
        /\ {1, 8} \subseteq hit => resolution_type = "ENFORCEMENT_ACTION"

C13_Witness ==
  /\ script = "03_DataProcessing"
  /\ resolution_type = "ENFORCEMENT_ACTION"
  /\ {1, 8} \subseteq Matching(description)
  /\ description # Lower(description)

\* ------------------------------------------------------------ the claims
EntityTables == {"agency", "borough", "complaint", "park", "location"}

DimensionTables ==
  {"dim_agency", "dim_date", "dim_complaint", "dim_channel", "dim_resolution",
   "dim_location"}

\* the input of the present invocation and the keyed tables of its script
Input == IF script = "02_OLTP" THEN requests ELSE requests_cleaned

KeyedTables == IF script = "02_OLTP" THEN EntityTables ELSE DimensionTables

SchemaOf(t) ==
  IF t \in Range(OLTP_SCHEMA_TABLES) THEN OLTP_Schema[t] ELSE OLAP_Schema[t]

KeysOf(t) == {r[SchemaOf(t).pk] : r \in db[t]}

\* the natural key of table t that input record rec carries
NaturalKey(t, rec) ==
  CASE t = "agency" -> <<rec.agency>>
    [] t = "borough" -> <<rec.borough>>
    [] t = "complaint" -> <<rec.complaint_type, rec.descriptor>>
    [] t = "park" -> <<rec.park_facility_name, rec.park_borough>>
    [] t = "location" -> <<rec.borough, rec.community_board, rec.incident_zip,
                           rec.latitude>>
    [] t = "dim_agency" -> <<rec.agency_code>>
    [] t = "dim_date" -> <<Isoformat(DateOf(rec.created_timestamp))>>
    [] t = "dim_complaint" -> <<rec.complaint_type, rec.complaint_descriptor>>
    [] t = "dim_channel" -> <<rec.channel>>
    [] t = "dim_resolution" -> <<rec.resolution_type>>
    [] t = "dim_location" -> <<rec.location_type, rec.board_id,
                               rec.borough_name, rec.zip, rec.city>>

\* the distinct natural keys of the input, in first-seen order
NaturalKeys(t, df) == Unique([i \in 1..Len(df) |-> NaturalKey(t, df[i])])

\* the natural key a stored row carries.  A location row does not carry its
\* own (borough is stored as borough_id, community_board as its first token).
StoredKey(t, r) ==
  CASE t = "agency" -> <<r.agency_code>>
    [] t = "borough" -> <<r.borough_name>>
    [] t = "complaint" -> <<r.complaint_type, r.descriptor>>
    [] t = "park" -> <<r.park_facility_name, r.park_borough>>
    [] t = "dim_agency" -> <<r.agency_code>>
    [] t = "dim_date" -> <<r.date>>
    [] t = "dim_complaint" -> <<r.complaint_type, r.descriptor>>
    [] t = "dim_channel" -> <<r.channel_name>>
    [] t = "dim_resolution" -> <<r.resolution_type>>
    [] t = "dim_location" -> <<r.location_type, r.board_id, r.borough, r.zip,
                               r.city>>

RowsOf(t, k) == {r \in db[t] : StoredKey(t, r) = k}

\* the loader of t was called on an empty table in this invocation and has
\* returned on the present input
LoadedOnEmpty(t) == called[t] = "empty" /\ loaded[t] # "no"

\* C1: for any input loaded into an empty table, once the loader of an entity
\* or dimension table has returned, the surrogate keys stored in the table are
\* exactly 0..n-1, n being the number of distinct natural keys of the input.
C1_SurrogateKeysDense ==
  \A t \in KeyedTables :
    LoadedOnEmpty(t) => KeysOf(t) = 0..(Len(NaturalKeys(t, Input)) - 1)

\* C2: in a table populated from empty, surrogate keys follow first-seen
\* order: of two distinct natural keys the one seen first has the smaller
\* key, and the natural key seen first has key 0.  (Stated for the tables
\* whose rows carry their natural key.)
C2_FirstSeenOrder ==
  \A t \in KeyedTables \ {"location"} :
    LoadedOnEmpty(t) =>
      LET ks == NaturalKeys(t, Input)
          pk == SchemaOf(t).pk
      IN /\ \A i \in 1..Len(ks), j \in 1..Len(ks) :
              \A ri \in RowsOf(t, ks[i]), rj \in RowsOf(t, ks[j]) :
                (ri[pk] < rj[pk]) <=> (i < j)
         /\ ks # <<>> => \E r \in RowsOf(t, ks[1]) : r[pk] = 0

CallsLoader(t) == called[t] = "no" /\ called'[t] # "no"

\* C3: a loader called again with the input it has already returned on,
\* against the store that call populated, raises no error and leaves its
\* table with the same rows (entity tables, service_request and dimensions).
C3_RerunChangesNothing ==
  [][\A t \in EntityTables \cup DimensionTables \cup {"service_request"} :
       (loaded[t] # "no" /\ called'[t] # "no") =>
         /\ db'[t] = db[t]
         /\ CallsLoader(t) => ~err']_vars

C3_Witness ==
  /\ script = "04_DataWarehouse"
  /\ Dispatching(OLAP_SCHEMA_TABLES, "fact_service_request")
  /\ Len(requests_cleaned) = MaxRecords
  /\ \A t \in DimensionTables :
       loaded[t] = "again" /\ called[t] = "populated" /\ db[t] # {}

\* C4: after any sequence of runs on the same store, every distinct natural
\* key of the latest input is in its table in exactly one row.  (Stated for
\* the tables add_contents of the Normalizer loads and whose rows carry
\* their natural key.)
C4_LatestKeysPresentOnce ==
  script = "02_OLTP" =>
    \A t \in {"agency", "borough", "park"} :
      (called[t] # "no" /\ loaded[t] # "no") =>
        \A i \in 1..Len(requests) :
          Cardinality(RowsOf(t, NaturalKey(t, requests[i]))) = 1

\* C5: when add_contents of the Normalizer runs on an empty store, at the
\* moment add_service_request starts each of agency, borough, complaint and
\* park holds one row for every distinct natural key of the input, location
\* holds one row per distinct location key, and borough was populated before
\* location read it.
C5_EntitiesPopulatedBeforeRequests ==
  (/\ script = "02_OLTP"
   /\ fresh
   /\ Dispatching(OLTP_SCHEMA_TABLES, "service_request")) =>
    /\ \A t \in {"agency", "borough", "complaint", "park"} :
         \A i \in 1..Len(requests) :
           Cardinality(RowsOf(t, NaturalKey(t, requests[i]))) = 1
    /\ Cardinality(db["location"]) = Len(NaturalKeys("location", requests))
    /\ Cardinality({r \in db["location"] : r.borough_id # NoKey})
         = Cardinality({k \in Range(NaturalKeys("location", requests)) :
                          k[1] # NA})

\* C6: add_service_request of the Normalizer, called on an empty
\* service_request table, returns without an error and stores exactly one row
\* per raw record, with request_id the record's 0-based position and the
\* record's own columns; a reference whose lookup misses is null.
C6_OneRowPerRecord ==
  (script = "02_OLTP" /\ called["service_request"] = "empty") =>
    /\ ~err
    /\ pc = Returned(OLTP_SCHEMA_TABLES)
    /\ Cardinality(db["service_request"]) = Len(requests)
    /\ \A i \in 1..Len(requests) :
         \E r \in db["service_request"] :
           /\ r.request_id = i - 1
           /\ r.created_timestamp = requests[i].created_date
           /\ r.closed_timestamp = requests[i].closed_date
           /\ r.channel = requests[i].open_data_channel_type
           /\ r.resolution_description = requests[i].resolution_description
           /\ (\A a \in db["agency"] : a.agency_code # requests[i].agency)
                => r.agency_id = NoKey
           /\ (\A c \in db["complaint"] :
                 c.complaint_type # requests[i].complaint_type)
                => r.complaint_id = NoKey
           /\ (\A p \in db["park"] :
                 p.park_facility_name # requests[i].park_facility_name)
                => r.park_id = NoKey
           /\ db["location"] = {} => r.location_id = NoKey

C6_Witness ==
  /\ script = "02_OLTP"
  /\ called["service_request"] = "empty"
  /\ Len(requests) = MaxRecords
  /\ \E r \in db["service_request"] : r.agency_id = NoKey /\ r.park_id # NoKey
  /\ \E r \in db["service_request"] :
       r.agency_id # NoKey /\ r.complaint_id = NoKey

\* C7: in every reachable store, every non-null reference of a service_request,
\* location or fact row is the primary key of a row of the referenced table.
C7_ReferencesValid ==
  \A t \in {"location", "service_request", "fact_service_request"} :
    \A r \in db[t] :
      \A c \in DOMAIN SchemaOf(t).fk :
        r[c] # NoKey =>
          \E x \in db[SchemaOf(t).fk[c][1]] : x[SchemaOf(t).fk[c][2]] = r[c]

C7_Witness ==
  \/ /\ \E r \in db["service_request"] :
          r.agency_id # NoKey /\ r.park_id # NoKey /\ r.complaint_id # NoKey
     /\ \E r \in db["location"] : r.borough_id # NoKey
     /\ runs = MaxRuns
  \/ /\ \E r \in db["fact_service_request"] :
          r.complaint_key # NoKey /\ r.location_key # NoKey
     /\ runs = MaxRuns

\* C8: for whole-second timestamps the wait time conv_to_days computes is the
\* signed difference closed - created in days, whatever its sign.
C8_WaitTimeIsTheDifference ==
  \A i \in 1..Len(featured) :
    ~featured[i].waittime.na =>
      featured[i].waittime.days
        = featured[i].closed_timestamp.t - featured[i].created_timestamp.t

StepAfter(step) == 1 + CHOOSE i \in 1..Len(CLEAN_STEPS) : CLEAN_STEPS[i] = step

\* C9: a row whose created or closed timestamp is missing or unparseable
\* raises no error; its wait time is null and the wait-time filter removes it.
C9_BadTimestampNeverRaises ==
  script = "03_DataProcessing" =>
    /\ ~err
    /\ \A i \in 1..Len(featured) :
         (featured[i].created_timestamp = NaT
            \/ featured[i].closed_timestamp = NaT)
           => /\ featured[i].waittime.na
              /\ pc >= StepAfter("filter_waittime")
                   => \A j \in 1..Len(frame) :
                        frame[j].request_id # featured[i].request_id

Kept(row) ==
  /\ ~row.waittime.na
  /\ row.waittime.days >= 0
  /\ row.resolution_description # NA

\* C10: the two filters keep exactly the rows whose wait time is a number >= 0
\* and whose resolution narrative is present, with their values and their
\* order unchanged, and the other order of the two filters keeps the same rows.
C10_FiltersKeepExactly ==
  (script = "03_DataProcessing" /\ pc = StepAfter("dropna")) =>
    /\ \A i \in 1..Len(featured) :
         Kept(featured[i]) <=> \E j \in 1..Len(frame) : frame[j] = featured[i]
    /\ \A j \in 1..Len(frame) : \E i \in 1..Len(featured) : frame[j] = featured[i]
    /\ \A j \in 1..Len(frame), k \in 1..Len(frame) :
         j < k => frame[j].request_id < frame[k].request_id
    /\ Range(FilterWaittime(DropnaResolution(featured))) = Range(frame)

C10_Witness ==
  /\ script = "03_DataProcessing"
  /\ pc = StepAfter("dropna")
  /\ \E j \in 1..Len(frame) : frame[j].waittime.days = 0
  /\ \E i \in 1..Len(featured) : featured[i].waittime.na
  /\ Len(featured) = MaxFrameRows

\* ------------------------------------------------- the fact load (C14 to C17)

\* some row of dimension t holds value v in column col
Stored(t, col, v) == v # NA /\ \E r \in db[t] : r[col] = v

LocationStored(rec) ==
  /\ ~DW_location_key_isnan(rec)
  /\ \E r \in db["dim_location"] :
       <<r.location_type, r.board_id, r.borough, r.zip, r.city>>
         = DW_location_key(rec)

RequiredMiss(rec) ==
  \/ ~Stored("dim_date", "date", Isoformat(DateOf(rec.created_timestamp)))
  \/ ~Stored("dim_agency", "agency_code", rec.agency_code)
  \/ ~Stored("dim_channel", "channel_name", rec.channel)
  \/ ~Stored("dim_resolution", "resolution_type", rec.resolution_type)

FactRowsOf(rec) ==
  {f \in db["fact_service_request"] : f.fact_id = rec.request_id}

\* C14: in a fact load that starts on an empty fact table, a record whose
\* date, agency, channel or resolution type is in no dimension row stops the
\* load with an error and gets no fact row; when no record stops the load, a
\* record whose complaint type or location is in no dimension row gets its
\* fact row with a null reference there.
C14_RequiredRaiseOptionalNull ==
  (script = "04_DataWarehouse" /\ called["fact_service_request"] = "empty") =>
    /\ \A i \in 1..Len(requests_cleaned) :
         RequiredMiss(requests_cleaned[i]) =>
           /\ err
           /\ pc = Exited
           /\ FactRowsOf(requests_cleaned[i]) = {}
    /\ (\A i \in 1..Len(requests_cleaned) : ~RequiredMiss(requests_cleaned[i]))
         => \A i \in 1..Len(requests_cleaned) :
              LET rec == requests_cleaned[i]
              IN  /\ ~err
                  /\ Cardinality(FactRowsOf(rec)) = 1
                  /\ \A f \in FactRowsOf(rec) :
                       /\ ~Stored("dim_complaint", "complaint_type",
                                  rec.complaint_type)
                            => f.complaint_key = NoKey
                       /\ ~LocationStored(rec) => f.location_key = NoKey

C14_Witness ==
  /\ script = "04_DataWarehouse"
  /\ called["fact_service_request"] = "empty"
  /\ ~err
  /\ \E i \in 1..Len(requests_cleaned) :
       /\ ~Stored("dim_complaint", "complaint_type",
                  requests_cleaned[i].complaint_type)
       /\ ~LocationStored(requests_cleaned[i])
       /\ \E f \in FactRowsOf(requests_cleaned[i]) :
            f.complaint_key = NoKey /\ f.location_key = NoKey
  /\ \E i \in 1..Len(requests_cleaned) :
       \E f \in FactRowsOf(requests_cleaned[i]) :
         f.complaint_key # NoKey /\ f.location_key = NoKey

DateRowsOf(rec) ==
  {r \in db["dim_date"] : r.date = Isoformat(DateOf(rec.created_timestamp))}

\* C15: in a run on an empty store that reaches the fact load, every cleaned
\* record finds its created date in dim_date, in exactly one row, and a fact
\* row of the record carries that row's key as its date_key.
C15_DateLookupSucceeds ==
  (script = "04_DataWarehouse" /\ fresh /\ called["fact_service_request"] # "no")
    => \A i \in 1..Len(requests_cleaned) :
         /\ Cardinality(DateRowsOf(requests_cleaned[i])) = 1
         /\ \A f \in FactRowsOf(requests_cleaned[i]) :
              \E r \in DateRowsOf(requests_cleaned[i]) : f.date_key = r.date_key

C15_Witness ==
  /\ script = "04_DataWarehouse"
  /\ fresh
  /\ ~err
  /\ called["fact_service_request"] = "empty"
  /\ Cardinality(db["dim_date"]) > 1
  /\ \A i \in 1..Len(requests_cleaned) : FactRowsOf(requests_cleaned[i]) # {}
  /\ \E f \in db["fact_service_request"] : f.date_key > 0

\* C16: every row of the fact table has the wait time of the cleaned record
\* with its fact_id as wait_time_days, and exactly 24 times that value as
\* wait_time_hours.
C16_HoursAre24TimesDays ==
  script = "04_DataWarehouse" =>
    \A f \in db["fact_service_request"] :
      /\ f.wait_time_hours = f.wait_time_days * 24
      /\ \E i \in 1..Len(CleanedFile) :
           /\ CleanedFile[i].request_id = f.fact_id
           /\ f.wait_time_days = CleanedFile[i].waittime
           /\ f.wait_time_hours = 24 * CleanedFile[i].waittime

C16_Witness ==
  /\ script = "04_DataWarehouse"
  /\ ~err
  /\ \E f \in db["fact_service_request"] :
       f.wait_time_days > 0 /\ f.wait_time_hours > f.wait_time_days
  /\ \E f \in db["fact_service_request"] : f.wait_time_days = 0

\* C17: a fact load of the records that an earlier fact load already stored,
\* run against that populated fact table, completes and leaves two fact rows
\* per cleaned record.
C17_RerunAddsSecondRows ==
  (/\ script = "04_DataWarehouse"
   /\ called["fact_service_request"] = "populated"
   /\ loaded["fact_service_request"] # "no")
    => /\ ~err
       /\ Cardinality(db["fact_service_request"]) = 2 * Len(requests_cleaned)

\* C18: a population step that fails leaves the committed store as it was
\* when the step began: none of the rows the step had written are in it, and
\* the rows of the steps that completed before are.
C18_FailedStepCommitsNothing == [][err' => db' = db]_vars

C18_Witness ==
  /\ script = "02_OLTP"
  /\ fresh
  /\ err
  /\ called["location"] = "empty"
  /\ called["service_request"] = "no"
  /\ db["agency"] # {}
  /\ db["borough"] # {}
  /\ db["location"] = {}
  /\ \E i \in 2..Len(requests) :
       /\ requests[i].community_board = NoBoard
       /\ requests[1].community_board \notin {NoBoard, <<>>}

\* C19: no insert of a loader that violates a NOT NULL, primary-key or UNIQUE
\* constraint is skipped in silence: once the channel loader was called with
\* a record without channel, or the agency loader was called on a populated
\* agency table, the run has ended with an error.
C19_ViolationAbortsRun ==
  /\ (/\ script = "04_DataWarehouse"
      /\ called["dim_channel"] # "no"
      /\ \E i \in 1..Len(requests_cleaned) : requests_cleaned[i].channel = NA)
       => err
  /\ (/\ called["dim_agency"] = "populated" \/ called["agency"] = "populated"
      /\ Input # <<>>)
       => err

\* C20: when add_contents of the entity store has returned in a run on an
\* empty store over three raw records of agency "NYPD" with pairwise
\* different complaint types, exactly one of them without closed timestamp,
\* the store holds exactly one agency row and one complaint row per distinct
\* (complaint type, descriptor) pair of the records.
C20_EndToEndEntities ==
  (/\ script = "02_OLTP"
   /\ fresh
   /\ ~err
   /\ called["complaint"] = "no"
   /\ pc = Returned(OLTP_SCHEMA_TABLES)
   /\ Len(requests) = 3
   /\ \A i \in 1..3 : requests[i].agency = "NYPD"
   /\ \A i, j \in 1..3 :
        i # j => /\ requests[i].complaint_type # NA
                 /\ requests[i].complaint_type # requests[j].complaint_type
   /\ Cardinality({i \in 1..3 : requests[i].closed_date = NoStamp}) = 1)
    => /\ Cardinality(db["agency"]) = 1
       /\ Cardinality(db["complaint"])
            = Cardinality({<<requests[i].complaint_type, requests[i].descriptor>> :
                             i \in 1..3})

\* ------------------------------------------- reference resolution (C21 to C27)

\* C21: the location load never aborts: once add_location was called on an
\* empty location table, and before the request load, the run has no error
\* and every record has a location row with its zip and latitude whose
\* board_id is the first token of the record's community board, also for a
\* record whose community board is missing or empty.
C21_LocationLoadNeverAborts ==
  (/\ script = "02_OLTP"
   /\ called["location"] = "empty"
   /\ called["service_request"] = "no")
    => /\ ~err
       /\ \A i \in 1..Len(requests) :
            \E r \in db["location"] :
              /\ r.zip = requests[i].incident_zip
              /\ r.latitude = requests[i].latitude
              /\ requests[i].community_board \notin {NoBoard, <<>>}
                   => r.board_id = requests[i].community_board[1]

\* C22: the request load of the entity store changes none of the agency,
\* borough, complaint, park and location tables, and the fact load changes
\* none of the six dimension tables, whether or not the references of the
\* records are found.
C22_LookupAllocatesNothing ==
  [][/\ (script = "02_OLTP" /\ Dispatching(OLTP_SCHEMA_TABLES, "service_request"))
        => \A t \in {"agency", "borough", "complaint", "park", "location"} :
             db'[t] = db[t]
     /\ (script = "04_DataWarehouse"
         /\ Dispatching(OLAP_SCHEMA_TABLES, "fact_service_request"))
        => \A t \in {"dim_agency", "dim_date", "dim_complaint", "dim_channel",
                     "dim_resolution", "dim_location"} :
             db'[t] = db[t]]_vars

C22_Witness ==
  /\ script = "02_OLTP"
  /\ ~err
  /\ called["service_request"] = "empty"
  /\ db["service_request"] # {}
  /\ db["agency"] # {}
  /\ db["location"] # {}
  /\ db["complaint"] = {}
  /\ \A r \in db["service_request"] : r.complaint_id = NoKey
  /\ \E i \in 1..Len(requests) : requests[i].complaint_type # NA

\* C23: after add_location and add_service_request ran on the same records
\* on an empty store, the request row of every record has a non-null
\* location_id, the key of a location row with the record's zip and latitude.
C23_RequestsReferenceTheirLocation ==
  (/\ script = "02_OLTP"
   /\ fresh
   /\ ~err
   /\ LoadedOnEmpty("location")
   /\ LoadedOnEmpty("service_request"))
    => \A i \in 1..Len(requests) :
         \E r \in db["service_request"] :
           /\ r.request_id = i - 1
           /\ r.location_id # NoKey
           /\ \E l \in db["location"] :
                /\ l.location_id = r.location_id
                /\ l.zip = requests[i].incident_zip
                /\ l.latitude = requests[i].latitude

\* C24: after a fact load on an empty store, the location_key of every
\* record's fact row is the key of the dim_location row that carries the
\* record's (location_type, board_id, borough, zip, city), a missing
\* component being equal to a missing component; it is null only when the
\* dimension has no such row.
C24_LocationFoundWithMissingParts ==
  (/\ script = "04_DataWarehouse"
   /\ fresh
   /\ ~err
   /\ LoadedOnEmpty("fact_service_request"))
    => \A i \in 1..Len(requests_cleaned) :
         LET rows == RowsOf("dim_location",
                            NaturalKey("dim_location", requests_cleaned[i]))
         IN \A f \in FactRowsOf(requests_cleaned[i]) :
              IF rows = {} THEN f.location_key = NoKey
              ELSE \E r \in rows : f.location_key = r.location_key

\* C25: after a fact load on an empty store, every fact row with a non-null
\* complaint_key references the dim_complaint row whose complaint type and
\* descriptor are those of its record, also when several dim_complaint rows
\* share one complaint type.
C25_ComplaintByTypeAndDescriptor ==
  (/\ script = "04_DataWarehouse"
   /\ fresh
   /\ ~err
   /\ LoadedOnEmpty("fact_service_request"))
    => \A i \in 1..Len(requests_cleaned) :
         \A f \in FactRowsOf(requests_cleaned[i]) :
           f.complaint_key # NoKey
             => \E r \in RowsOf("dim_complaint",
                                NaturalKey("dim_complaint", requests_cleaned[i])) :
                  r.complaint_key = f.complaint_key

\* C26: when add_service_request runs on the records that add_complaint_type
\* and add_park have loaded before, each on its empty table, the request row
\* it writes for a record with a complete complaint pair and park pair
\* references the complaint row with the record's (complaint_type,
\* descriptor) and the park row with the record's (park_facility_name,
\* park_borough), also when several rows share a complaint type or a park
\* name.
C26_ComplaintAndParkByPair ==
  [][(/\ script = "02_OLTP"
      /\ Dispatching(OLTP_SCHEMA_TABLES, "service_request")
      /\ LoadedOnEmpty("complaint")
      /\ LoadedOnEmpty("park")
      /\ db["service_request"] = {}
      /\ ~err')
       => \A i \in 1..Len(requests) :
            (/\ NA \notin Range(NaturalKey("complaint", requests[i]))
             /\ NA \notin Range(NaturalKey("park", requests[i])))
              => \E r \in db'["service_request"] :
                   /\ r.request_id = i - 1
                   /\ \E c \in RowsOf("complaint",
                                      NaturalKey("complaint", requests[i])) :
                        c.complaint_id = r.complaint_id
                   /\ \E p \in RowsOf("park",
                                      NaturalKey("park", requests[i])) :
                        p.park_id = r.park_id]_vars

\* C27: the join of the cleaning script succeeds on a populated entity store
\* and delivers exactly one row per service_request row, and every column
\* the warehouse loader reads from the cleaned file is a column of the join
\* or a column the cleaning script adds.
C27_JoinDeliversEveryRequest ==
  /\ (script = "03_DataProcessing" /\ db["service_request"] # {})
       => /\ ~err
          /\ Len(frame) = Cardinality(db["service_request"])
  /\ DOMAIN CleanedBase
       \subseteq {QueryColumns[k][3] : k \in 1..Len(QueryColumns)}
                   \cup FeatureColumns

====
